---- MODULE Spec2Model ----
(***************************************************************************)
(* Model of channel_video_extractor: the harvest pipeline of videos.py     *)
(* (subscription enumeration, cached per-channel extraction, record        *)
(* normalization, incremental persistence) and the repositories of         *)
(* videos.py and main.py.                                                  *)
(*                                                                         *)
(* Python strings that the code inspects character by character (video    *)
(* ids, Solr queries) are sequences of one-character strings.              *)
(***************************************************************************)
EXTENDS Integers, Sequences, FiniteSets, TLC

VARIABLES
    impl,            \* which module's repository classes run: "videos" | "main"
    repoKind,        \* cli's choice: "json" (--output) | "solr" (--solr)
    solrConfigured,  \* SOLR_URL is set, so SolrRepository.solr is not None
    jsonFile,        \* the snapshot file self.filename
    solrDocs,        \* the documents of the Solr index, unique by id
    lastSave,        \* what the latest Repository.save call did
    prevSave,        \* the batch and outcome of the save call before it
    cache,           \* the files of CACHE_FOLDER, by path
    now,             \* time.time(), in seconds
    lastExtract,     \* what the latest extract_videos call did
    lastGet,         \* the latest load_from_cache call and what it returned
    puts,            \* per identifier: the latest save_to_cache call
    pc,              \* where the harvest stands
    caught,          \* the handler that logged the error ending the run
    listCalls,       \* subscriptions().list requests executed
    lastList,        \* the latest list request and its outcome
    next_page_token, \* extract_subscriptions' local
    subscriptions,   \* the items of the page being processed
    idx,             \* position in subscriptions of the current channel
    videos,          \* the batch extracted for the current channel
    chan,            \* per channel: what this run did with it
    idsAtStart,      \* the ids stored when the run began
    opts,            \* cli's options: --output given, --solr given
    port,            \* authenticate_youtube's local
    auth,            \* authenticate_youtube: "pending" | "ok" | "failed"
    contacted,       \* the remote services the run has called so far
    raw,             \* a raw entry handed to generate_view_object
    view,            \* what generate_view_object made of it
    workers,         \* per harvest process: where its save call stands
    ui               \* the search service: a query and the pages answered

repoVars == <<impl, repoKind, solrConfigured, jsonFile, solrDocs, lastSave, prevSave>>
cacheVars == <<cache, now, lastExtract, lastGet, puts>>
runVars ==
    <<pc, caught, listCalls, lastList, next_page_token, subscriptions, idx,
      videos, chan, idsAtStart>>

cliVars == <<opts, port, auth, contacted>>
normVars == <<raw, view>>
auxVars == <<normVars, workers, ui>>

vars == <<repoVars, cacheVars, runVars, cliVars, auxVars>>

-----------------------------------------------------------------------------
(* Python values *)

None == "None"

\* None where the code expects a dict (an info_dict)
NoneDict == [py_none |-> TRUE]
IsNone(d) == "py_none" \in DOMAIN d

\* dict.get(key): the value, or None when the key is absent
Get(d, k) == IF k \in DOMAIN d THEN d[k] ELSE None

\* the elements of a sequence
Range(s) == {s[i] : i \in DOMAIN s}

-----------------------------------------------------------------------------
(* Normalizer *)

\* value.startswith('-') ? '"' + value + '"' : value
sanitize_solr_query(value) ==
    IF Len(value) > 0 /\ value[1] = "-"
      THEN <<"\"">> \o value \o <<"\"">>
      ELSE value

\* The raw thumbnails value carries its Python type: a list has its items,
\* any other value only its type.
PyList(items) == [type |-> "list", items |-> items]
PyNone == [type |-> "NoneType"]

\* entry.get("thumbnails")
GetThumbnails(entry) ==
    IF "thumbnails" \in DOMAIN entry THEN entry.thumbnails ELSE PyNone

\* a projection that keeps one element per descriptor, None for a missing url
normalize_thumbnails_keeping(thumbnails) ==
    IF thumbnails.type = "list"
      THEN [i \in DOMAIN thumbnails.items |-> Get(thumbnails.items[i], "url")]
      ELSE <<>>

normalize_thumbnails(thumbnails) ==
    IF thumbnails.type = "list"
      THEN LET HasUrl(thumb) == "url" \in DOMAIN thumb
               kept == SelectSeq(thumbnails.items, HasUrl)
           IN  [i \in DOMAIN kept |-> kept[i]["url"]]
      ELSE <<>>

\* entry.get("id") is None: sanitize_solr_query calls None.startswith and raises
generate_view_object_raises(entry) == Get(entry, "id") = None

\* a normalizer that copies only the fields the raw entry has
generate_view_object_omitting(entry) ==
    [f \in DOMAIN entry \ {"id", "thumbnails"} |-> entry[f]]
      @@ [id         |-> sanitize_solr_query(Get(entry, "id")),
          thumbnails |-> normalize_thumbnails(GetThumbnails(entry))]

generate_view_object(entry) ==
    [id                  |-> sanitize_solr_query(Get(entry, "id")),
     url                 |-> Get(entry, "url"),
     title               |-> Get(entry, "title"),
     description         |-> Get(entry, "description"),
     view_count          |-> Get(entry, "view_count"),
     duration            |-> Get(entry, "duration"),
     thumbnails          |-> normalize_thumbnails(GetThumbnails(entry)),
     release_timestamp   |-> Get(entry, "release_timestamp"),
     channel_is_verified |-> Get(entry, "channel_is_verified"),
     live_status         |-> Get(entry, "live_status")]

-----------------------------------------------------------------------------
(* Snapshot file of the file-backed repository *)

AbsentFile == [kind |-> "absent", data |-> <<>>]
JsonOf(data) == [kind |-> "json", data |-> data]
\* a file json.load cannot parse: what open(.., "w") followed by a failed
\* json.dump leaves behind (a strict prefix of a JSON array)
CorruptFile == [kind |-> "corrupt", data |-> <<>>]

IdsOf(data) == {data[i].id : i \in DOMAIN data}

\* the outcome of one save call
\* store: the file or the index after the call; failed: an error was logged;
\* opened: the file was opened for writing / an add call reached the engine;
\* written: the records the call appended to the file / submitted to the engine
\* queries: the search requests the call sent to the engine
SaveResult(store, failed, opened, written) ==
    [store |-> store, failed |-> failed, opened |-> opened, written |-> written,
     queries |-> <<>>]

\* faults the environment can inject into one save call
JsonFaults == {"none", "read", "open_w", "dump"}
SolrFaults == {"none", "search", "add"}

\* videos.py JsonRepository.save
JsonRepository_save(file, data, fault) ==
    IF file.kind = "corrupt" \/ (file.kind = "json" /\ fault = "read")
      THEN SaveResult(file, TRUE, FALSE, <<>>)
      ELSE LET existing_data == file.data
               existing_ids == IdsOf(existing_data)
               NotSeen(item) == item.id \notin existing_ids
               unique_data == SelectSeq(data, NotSeen)
           IN  IF unique_data = <<>>
                 THEN SaveResult(file, FALSE, FALSE, <<>>)
               ELSE IF fault = "open_w"
                 THEN SaveResult(file, TRUE, FALSE, <<>>)
               ELSE IF fault = "dump"
                 THEN SaveResult(CorruptFile, TRUE, TRUE, <<>>)
               ELSE SaveResult(JsonOf(existing_data \o unique_data), FALSE, TRUE,
                               unique_data)

\* main.py JsonRepository.save
MainJsonRepository_save(file, data, fault) ==
    IF file.kind = "corrupt" \/ (file.kind = "json" /\ fault = "read")
      THEN SaveResult(file, TRUE, FALSE, <<>>)
    ELSE IF fault = "open_w"
      THEN SaveResult(file, TRUE, FALSE, <<>>)
    ELSE IF fault = "dump"
      THEN SaveResult(CorruptFile, TRUE, TRUE, <<>>)
    ELSE SaveResult(JsonOf(file.data \o data), FALSE, TRUE, data)

-----------------------------------------------------------------------------
(* Solr index *)

\* f"id:{item['id']}"
IdQuery(id) == <<"i", "d", ":">> \o id

\* The engine's reading of the query id:<value>: a value in double quotes is a
\* phrase whose text is what stands between the quotes.
QueryTerm(query) ==
    LET value == SubSeq(query, 4, Len(query))
    IN  IF Len(value) >= 2 /\ value[1] = "\"" /\ value[Len(value)] = "\""
          THEN SubSeq(value, 2, Len(value) - 1)
          ELSE value

\* self.solr.search(query).docs
SolrSearch(docs, query) == {d \in docs : d.id = QueryTerm(query)}

\* self.solr.add(data): id is the unique key, a document with a stored id
\* replaces the stored one; later items of the batch win
RECURSIVE SolrAdd(_, _)
SolrAdd(docs, data) ==
    IF data = <<>>
      THEN docs
      ELSE SolrAdd({d \in docs : d.id # Head(data).id} \cup {Head(data)},
                   Tail(data))

\* videos.py SolrRepository._deduplicate_solr
deduplicate_solr(docs, data) ==
    LET NoDocs(item) == SolrSearch(docs, IdQuery(item.id)) = {}
    IN  SelectSeq(data, NoDocs)

\* the search requests of _deduplicate_solr's loop, one per item
SolrQueries(data) == [i \in DOMAIN data |-> IdQuery(data[i].id)]

\* videos.py SolrRepository.save
SolrRepository_save(configured, docs, data, fault) ==
    IF ~configured
      THEN SaveResult(docs, TRUE, FALSE, <<>>)
    ELSE IF fault = "search" /\ data # <<>>
      THEN [SaveResult(docs, TRUE, FALSE, <<>>)
              EXCEPT !.queries = SubSeq(SolrQueries(data), 1, 1)]
    ELSE LET unique_data == deduplicate_solr(docs, data)
             r == IF unique_data = <<>>
                    THEN SaveResult(docs, FALSE, FALSE, <<>>)
                  ELSE IF fault = "add"
                    THEN SaveResult(docs, TRUE, TRUE, <<>>)
                  ELSE SaveResult(SolrAdd(docs, unique_data), FALSE, TRUE,
                                  unique_data)
         IN  [r EXCEPT !.queries = SolrQueries(data)]

\* main.py SolrRepository.save
MainSolrRepository_save(configured, docs, data, fault) ==
    IF ~configured
      THEN SaveResult(docs, TRUE, FALSE, <<>>)
    ELSE IF fault = "add"
      THEN SaveResult(docs, TRUE, TRUE, <<>>)
    ELSE SaveResult(SolrAdd(docs, data), FALSE, TRUE, data)

-----------------------------------------------------------------------------
(* Repository.save as the harvest calls it *)

StoredIds ==
    IF repoKind = "json" THEN IdsOf(jsonFile.data) ELSE {d.id : d \in solrDocs}

\* how many stored records carry the id
CountOf(id) ==
    IF repoKind = "json"
      THEN Cardinality({i \in DOMAIN jsonFile.data : jsonFile.data[i].id = id})
      ELSE Cardinality({d \in solrDocs : d.id = id})

FaultsOf(kind) == IF kind = "json" THEN JsonFaults ELSE SolrFaults

\* repository.save(data) of the repository cli selected
Repository_save(data, fault) ==
    IF repoKind = "json"
      THEN IF impl = "videos"
             THEN JsonRepository_save(jsonFile, data, fault)
             ELSE MainJsonRepository_save(jsonFile, data, fault)
      ELSE IF impl = "videos"
             THEN SolrRepository_save(solrConfigured, solrDocs, data, fault)
             ELSE MainSolrRepository_save(solrConfigured, solrDocs, data, fault)

NoSave ==
    [called |-> FALSE, batch |-> <<>>, fault |-> "none", idsBefore |-> {},
     idsAfter |-> {}, failed |-> FALSE, opened |-> FALSE, written |-> <<>>,
     queries |-> <<>>, fileBefore |-> AbsentFile]

\* the state change of one save call, with its record in lastSave
DoSave(data, fault) ==
    LET r == Repository_save(data, fault)
        idsAfter == IF repoKind = "json" THEN IdsOf(r.store.data)
                    ELSE {d.id : d \in r.store}
    IN  /\ jsonFile' = IF repoKind = "json" THEN r.store ELSE jsonFile
        /\ solrDocs' = IF repoKind = "solr" THEN r.store ELSE solrDocs
        /\ lastSave' = [called |-> TRUE, batch |-> data, fault |-> fault,
                        idsBefore |-> StoredIds, idsAfter |-> idsAfter,
                        failed |-> r.failed, opened |-> r.opened,
                        written |-> r.written, queries |-> r.queries,
                        fileBefore |-> jsonFile]
        /\ prevSave' = [called |-> lastSave.called, batch |-> lastSave.batch,
                        failed |-> lastSave.failed]
        /\ UNCHANGED <<impl, repoKind, solrConfigured>>

-----------------------------------------------------------------------------
(* Cache store *)

CACHE_EXPIRATION_SECONDS == 28800

\* "https://www.youtube.com/channel/"
ChannelUrlPrefix ==
    <<"h", "t", "t", "p", "s", ":", "/", "/", "w", "w", "w", ".", "y", "o",
      "u", "t", "u", "b", "e", ".", "c", "o", "m", "/", "c", "h", "a", "n",
      "n", "e", "l", "/">>

\* f"https://www.youtube.com/channel/{channel_id}"
ChannelUrl(channel_id) == ChannelUrlPrefix \o channel_id

\* str.replace(old, new) for one-character old and new
Replace(str, old, new) ==
    [i \in DOMAIN str |-> IF str[i] = old THEN new ELSE str[i]]

\* os.path.join(CACHE_FOLDER, f"{safe_filename}.pkl")
get_cache_file_path(identifier) ==
    LET safe_filename == Replace(Replace(identifier, "/", "_"), ":", "_")
    IN  <<"c", "a", "c", "h", "e", "/">> \o safe_filename
            \o <<".", "p", "k", "l">>

NoCacheFile == [kind |-> "absent", cached_time |-> 0, data |-> NoneDict]
CacheEntry(t, data) == [kind |-> "entry", cached_time |-> t, data |-> data]
\* a file pickle.load cannot read
CorruptCacheFile == [kind |-> "corrupt", cached_time |-> 0, data |-> NoneDict]

\* load_from_cache with the window closed at its end: an entry exactly
\* CACHE_EXPIRATION_SECONDS old still counts as fresh
load_from_cache_inclusive(c, identifier, t) ==
    LET cache_file == c[get_cache_file_path(identifier)]
    IN  IF cache_file.kind = "absent"
          THEN [raised |-> FALSE, value |-> NoneDict]
        ELSE IF cache_file.kind = "corrupt"
          THEN [raised |-> TRUE, value |-> NoneDict]
        ELSE IF t - cache_file.cached_time <= CACHE_EXPIRATION_SECONDS
          THEN [raised |-> FALSE, value |-> cache_file.data]
        ELSE [raised |-> FALSE, value |-> NoneDict]

\* load_from_cache: the value returned, or raised when pickle.load raises
load_from_cache(c, identifier, t) ==
    LET cache_file == c[get_cache_file_path(identifier)]
    IN  IF cache_file.kind = "absent"
          THEN [raised |-> FALSE, value |-> NoneDict]
        ELSE IF cache_file.kind = "corrupt"
          THEN [raised |-> TRUE, value |-> NoneDict]
        ELSE IF t - cache_file.cached_time < CACHE_EXPIRATION_SECONDS
          THEN [raised |-> FALSE, value |-> cache_file.data]
        ELSE [raised |-> FALSE, value |-> NoneDict]

\* a put that writes its file and empties the rest of the folder
save_to_cache_clearing(c, identifier, data, t) ==
    [f \in DOMAIN c |-> IF f = get_cache_file_path(identifier)
                           THEN CacheEntry(t, data) ELSE NoCacheFile]

\* save_to_cache: the cache directory afterwards
save_to_cache(c, identifier, data, t) ==
    [c EXCEPT ![get_cache_file_path(identifier)] = CacheEntry(t, data)]

-----------------------------------------------------------------------------
(* Channel extractor *)

\* Python truthiness of an info_dict: None and the empty dict are false
Truthy(info_dict) == ~IsNone(info_dict) /\ DOMAIN info_dict # {}

\* the loop body without its playlist branch (as in main.py)
EntryVideos_url_only(entry) ==
    IF Get(entry, "_type") = "url"
      THEN <<generate_view_object(entry)>>
      ELSE <<>>

\* the videos one top-level entry of a listing contributes
EntryVideos(entry) ==
    IF Get(entry, "_type") = "playlist"
      THEN LET children == IF "entries" \in DOMAIN entry THEN entry.entries
                           ELSE <<>>
           IN  [i \in DOMAIN children |-> generate_view_object(children[i])]
    ELSE IF Get(entry, "_type") = "url"
      THEN <<generate_view_object(entry)>>
    ELSE <<>>

\* an entry generate_view_object raises on while the loop processes this entry
EntryRaises(entry) ==
    IF Get(entry, "_type") = "playlist"
      THEN LET children == IF "entries" \in DOMAIN entry THEN entry.entries
                           ELSE <<>>
           IN  \E i \in DOMAIN children : generate_view_object_raises(children[i])
    ELSE IF Get(entry, "_type") = "url"
      THEN generate_view_object_raises(entry)
    ELSE FALSE

RECURSIVE FlattenEntries(_)
FlattenEntries(entries) ==
    IF entries = <<>>
      THEN <<>>
      ELSE EntryVideos(Head(entries)) \o FlattenEntries(Tail(entries))

\* the loop of extract_videos over info_dict.get('entries', [])
ListingVideos(info_dict) ==
    LET entries == IF "entries" \in DOMAIN info_dict THEN info_dict.entries
                   ELSE <<>>
    IN  IF IsNone(info_dict) \/ \E i \in DOMAIN entries : EntryRaises(entries[i])
          THEN [raised |-> TRUE, videos |-> <<>>]
          ELSE [raised |-> FALSE, videos |-> FlattenEntries(entries)]

ExtractResult(vids, c, source, ydlCalled, error) ==
    [videos |-> vids, cache |-> c, source |-> source, ydlCalled |-> ydlCalled,
     error |-> error, raised |-> FALSE]

\* what ydl.extract_info does when it is called
YdlRaises == [raises |-> TRUE, info |-> NoneDict]
YdlReturns(info_dict) == [raises |-> FALSE, info |-> info_dict]

\* an extractor that asks the collaborator on every call
extract_videos_uncached(c, t, channel_url, ydl) ==
    IF ydl.raises
      THEN ExtractResult(<<>>, c, "ydl", TRUE, TRUE)
      ELSE LET r == ListingVideos(ydl.info)
           IN  ExtractResult(r.videos, save_to_cache(c, channel_url, ydl.info, t),
                             "ydl", TRUE, r.raised)

\* extract_videos without its try/except: what the collaborator raises is
\* raised to the channel loop
extract_videos_unguarded(c, t, channel_url, ydl) ==
    LET cached == load_from_cache(c, channel_url, t)
    IN  IF cached.raised
          THEN [ExtractResult(<<>>, c, "cache_error", FALSE, TRUE)
                  EXCEPT !.raised = TRUE]
        ELSE IF Truthy(cached.value)
          THEN LET r == ListingVideos(cached.value)
               IN  [ExtractResult(r.videos, c, "cache", FALSE, r.raised)
                      EXCEPT !.raised = r.raised]
        ELSE IF ydl.raises
          THEN [ExtractResult(<<>>, c, "ydl", TRUE, TRUE) EXCEPT !.raised = TRUE]
        ELSE LET r == ListingVideos(ydl.info)
             IN  [ExtractResult(r.videos,
                                save_to_cache(c, channel_url, ydl.info, t),
                                "ydl", TRUE, r.raised)
                    EXCEPT !.raised = r.raised]

\* extract_videos(channel_url), ydl being what ydl.extract_info does if called
extract_videos(c, t, channel_url, ydl) ==
    LET cached == load_from_cache(c, channel_url, t)
    IN  IF cached.raised
          THEN ExtractResult(<<>>, c, "cache_error", FALSE, TRUE)
        ELSE IF Truthy(cached.value)
          THEN LET r == ListingVideos(cached.value)
               IN  ExtractResult(r.videos, c, "cache", FALSE, r.raised)
        ELSE IF ydl.raises
          THEN ExtractResult(<<>>, c, "ydl", TRUE, TRUE)
        ELSE LET r == ListingVideos(ydl.info)
             IN  ExtractResult(r.videos,
                               save_to_cache(c, channel_url, ydl.info, t),
                               "ydl", TRUE, r.raised)

-----------------------------------------------------------------------------
(* SpecRepo: any sequence of save calls on one repository *)

MaxRecords == 4

RawEntry(id, views) == [id |-> id, view_count |-> views]

VidA == generate_view_object(RawEntry(<<"a">>, 1))
VidA2 == generate_view_object(RawEntry(<<"a">>, 2))
VidB == generate_view_object(RawEntry(<<"b">>, 1))
VidDash == generate_view_object(RawEntry(<<"-", "c">>, 1))

RepoBatches ==
    {<<>>, <<VidA>>, <<VidA2, VidB>>, <<VidB, VidB>>, <<VidDash>>}

RepoInit ==
    /\ impl \in {"videos", "main"}
    /\ repoKind \in {"json", "solr"}
    /\ solrConfigured \in BOOLEAN
    /\ repoKind = "json" => solrConfigured
    /\ jsonFile \in (IF repoKind = "json" THEN {AbsentFile, JsonOf(<<>>)}
                     ELSE {AbsentFile})
    /\ solrDocs = {}
    /\ lastSave = NoSave
    /\ prevSave = [called |-> FALSE, batch |-> <<>>, failed |-> FALSE]
    /\ cache = <<>>
    /\ now = 0
    /\ lastExtract = <<>>
    /\ lastGet = <<>>
    /\ puts = <<>>
    /\ pc = "api"
    /\ caught = "none"
    /\ listCalls = 0
    /\ lastList = <<>>
    /\ next_page_token = 0
    /\ subscriptions = <<>>
    /\ idx = 0
    /\ videos = <<>>
    /\ chan = <<>>
    /\ idsAtStart = {}
    /\ opts = <<>>
    /\ port = 0
    /\ auth = "ok"
    /\ contacted = {}
    /\ raw = <<>>
    /\ view = <<>>
    /\ workers = <<>>
    /\ ui = <<>>

RepoSave ==
    /\ \E data \in RepoBatches, fault \in FaultsOf(repoKind) :
          /\ Len(jsonFile.data) + Len(data) <= MaxRecords
          /\ DoSave(data, fault)
    /\ UNCHANGED <<cacheVars, runVars, cliVars, auxVars>>

RepoNext == RepoSave

SpecRepo == RepoInit /\ [][RepoNext]_vars

-----------------------------------------------------------------------------
(* Spec: one run of cli's harvest (videos.py) *)

\* the channels the user subscribes to, in the provider's order
SubsList == <<<<"A">>, <<"B">>, <<"C">>>>
Channels == Range(SubsList)

\* most items the provider puts on one page (the request says maxResults=50)
MaxPerPage == 2
\* the provider's listing ends within this many pages
MaxPages == 3
\* time.time() when the run starts
StartTime == 57600

NoToken == -1

Min(a, b) == IF a < b THEN a ELSE b

UrlEntry(id, views) == [_type |-> "url", id |-> id, view_count |-> views]
PlaylistEntry(id, children) ==
    [_type |-> "playlist", id |-> id, entries |-> children]
OtherEntry(id) == [_type |-> "video", id |-> id]

\* what the extraction collaborator may list for a channel
ChannelListings(ch) ==
    {[entries |-> <<UrlEntry(ch \o <<"1">>, 1)>>],
     [entries |-> <<PlaylistEntry(ch, <<UrlEntry(ch \o <<"1">>, 2),
                                         UrlEntry(ch \o <<"2">>, 1)>>),
                    OtherEntry(ch \o <<"3">>)>>]}

YdlOutcomes(ch) == {YdlRaises} \cup {YdlReturns(l) : l \in ChannelListings(ch)}

user_email == "user@example.com"

\* video.update({"channelId": .., "channelTitle": .., "userEmail": ..})
WithChannel(video, channel_id) ==
    [channelId |-> channel_id, channelTitle |-> channel_id,
     userEmail |-> user_email] @@ video

CacheFiles == {get_cache_file_path(ChannelUrl(ch)) : ch \in Channels}

EmptyCache == [f \in CacheFiles |-> NoCacheFile]

\* a record a previous run stored
OldRecord == WithChannel(generate_view_object(UrlEntry(<<"A", "1">>, 1)), <<"A">>)

\* cache files a previous run, or damage to the disk, left for a channel
OldCacheFiles(ch) ==
    LET old == CHOOSE l \in ChannelListings(ch) : Len(l.entries) = 1
    IN  {CacheEntry(StartTime - CACHE_EXPIRATION_SECONDS + 1, old),
         CacheEntry(StartTime - CACHE_EXPIRATION_SECONDS, old),
         CorruptCacheFile}

NoExtract ==
    [called |-> FALSE, channel |-> <<>>, before |-> NoCacheFile,
     source |-> "none", ydlCalled |-> FALSE, error |-> FALSE, raised |-> FALSE,
     videos |-> <<>>, ydl |-> YdlRaises]

NoGet == [called |-> FALSE, identifier |-> <<>>, raised |-> FALSE,
          value |-> NoneDict]

NoPut == [done |-> FALSE, time |-> 0, data |-> NoneDict]

Identifiers == {ChannelUrl(ch) : ch \in Channels}

\* one extract_videos call: the cache afterwards and the record of the call
DoExtract(channel_id, ydl) ==
    LET channel_url == ChannelUrl(channel_id)
        r == extract_videos(cache, now, channel_url, ydl)
    IN  /\ cache' = r.cache
        /\ lastExtract' =
              [called |-> TRUE, channel |-> channel_id,
               before |-> cache[get_cache_file_path(channel_url)],
               source |-> r.source, ydlCalled |-> r.ydlCalled,
               error |-> r.error, raised |-> r.raised, videos |-> r.videos,
               ydl |-> ydl]
        /\ puts' = IF r.ydlCalled /\ ~ydl.raises
                     THEN [puts EXCEPT ![channel_url] =
                             [done |-> TRUE, time |-> now, data |-> ydl.info]]
                     ELSE puts

\* extracts, saves: the extract_videos and repository.save calls made for it
NoChan == [listed |-> FALSE, ext |-> "none", ids |-> {}, saved |-> "no",
           extracts |-> 0, saves |-> 0]

\* token: the pageToken sent; outcome: "ok" or the exception raised;
\* cursor: the response's nextPageToken; cursors: responses so far that had one
NoList == [token |-> NoToken, outcome |-> "none", cursor |-> NoToken,
           cursors |-> 0]

\* the option combinations cli can be started with
CliOptions == {[output |-> o, solr |-> sl] : o \in BOOLEAN, sl \in BOOLEAN}

DEFAULT_PORT == 8080

Init ==
    /\ impl = "videos"
    /\ opts \in CliOptions
    /\ repoKind = "none"
    /\ solrConfigured \in BOOLEAN
    /\ ~opts.solr => solrConfigured
    /\ jsonFile \in (IF opts.output /\ ~opts.solr
                       THEN {AbsentFile, JsonOf(<<OldRecord>>)}
                       ELSE {AbsentFile})
    /\ solrDocs \in (IF opts.solr /\ ~opts.output /\ solrConfigured
                       THEN {{}, {OldRecord}}
                       ELSE {{}})
    /\ lastSave = NoSave
    /\ prevSave = [called |-> FALSE, batch |-> <<>>, failed |-> FALSE]
    /\ cache \in {EmptyCache} \cup
          {[EmptyCache EXCEPT ![get_cache_file_path(ChannelUrl(SubsList[1]))] = e] :
              e \in OldCacheFiles(SubsList[1])}
    /\ now = StartTime
    /\ lastExtract = NoExtract
    /\ lastGet = NoGet
    /\ puts = [id \in Identifiers |-> NoPut]
    /\ pc = "auth"
    /\ caught = "none"
    /\ listCalls = 0
    /\ lastList = NoList
    /\ next_page_token = NoToken
    /\ subscriptions = <<>>
    /\ idx = 0
    /\ videos = <<>>
    /\ chan = [ch \in Channels |-> NoChan]
    /\ idsAtStart = {}
    /\ port = DEFAULT_PORT
    /\ auth = "pending"
    /\ contacted = {}
    /\ raw = <<>>
    /\ view = <<>>
    /\ workers = <<>>
    /\ ui = <<>>

\* an authentication error that is logged while the run goes on
AuthError_ignored(outcome) ==
    [pc |-> "select", caught |-> "none", auth |-> "failed"]

\* an exception raised in authenticate_youtube: it reaches cli's handler,
\* which logs it, and cli returns
AuthError(outcome) == [pc |-> "done", caught |-> "cli", auth |-> "failed"]

\* authenticate_youtube up to the port loop: the credentials file named by
\* the environment and the flow built from it
Authenticate ==
    /\ pc = "auth"
    /\ \E outcome \in {"ok", "no_credentials_file", "bad_client_secrets"} :
          IF outcome = "ok"
            THEN pc' = "bind" /\ UNCHANGED <<caught, auth>>
            ELSE /\ pc' = AuthError(outcome).pc
                 /\ caught' = AuthError(outcome).caught
                 /\ auth' = AuthError(outcome).auth
    /\ port' = DEFAULT_PORT
    /\ UNCHANGED <<repoVars, cacheVars, listCalls, lastList, next_page_token,
                   subscriptions, idx, videos, chan, idsAtStart, opts,
                   contacted, auxVars>>

PortsExhausted_late(p) == p > DEFAULT_PORT + 11

\* the test made on the port after it was incremented: no further attempt
PortsExhausted(p) == p > DEFAULT_PORT + 10

\* one pass of the port loop: flow.run_local_server(port=port), and on
\* success the two discovery.build calls
BindPort ==
    /\ pc = "bind"
    /\ \E outcome \in {"ok", "in_use", "oserror", "flow_error"} :
          CASE outcome = "ok" ->
                 /\ pc' = "select"
                 /\ auth' = "ok"
                 /\ port' = DEFAULT_PORT
                 /\ contacted' = contacted \cup {"identity"}
                 /\ UNCHANGED caught
            [] outcome = "in_use" ->
                 /\ port' = port + 1
                 /\ IF PortsExhausted(port + 1)
                      THEN /\ pc' = AuthError(outcome).pc
                           /\ caught' = AuthError(outcome).caught
                           /\ auth' = AuthError(outcome).auth
                      ELSE UNCHANGED <<pc, caught, auth>>
                 /\ UNCHANGED contacted
            [] outcome = "oserror" ->
                 /\ pc' = AuthError(outcome).pc
                 /\ caught' = AuthError(outcome).caught
                 /\ auth' = AuthError(outcome).auth
                 /\ UNCHANGED <<port, contacted>>
            [] outcome = "flow_error" ->
                 /\ pc' = AuthError(outcome).pc
                 /\ caught' = AuthError(outcome).caught
                 /\ auth' = AuthError(outcome).auth
                 /\ contacted' = contacted \cup {"identity"}
                 /\ UNCHANGED port
    /\ UNCHANGED <<repoVars, cacheVars, listCalls, lastList, next_page_token,
                   subscriptions, idx, videos, chan, idsAtStart, opts, auxVars>>

\* the repository cli builds from its options: --solr first, then --output
SelectedRepository(o) ==
    IF o.solr THEN "solr" ELSE IF o.output THEN "json" ELSE "none"

\* cli's choice of the repository, or its return when no option is given
SelectRepository ==
    /\ pc = "select"
    /\ repoKind' = SelectedRepository(opts)
    /\ IF SelectedRepository(opts) = "none"
         THEN pc' = "done" /\ caught' = "usage"
         ELSE pc' = "userinfo" /\ caught' = caught
    /\ idsAtStart' = IF SelectedRepository(opts) = "json"
                        THEN IdsOf(jsonFile.data)
                        ELSE {d.id : d \in solrDocs}
    /\ UNCHANGED <<impl, solrConfigured, jsonFile, solrDocs, lastSave, prevSave,
                   cacheVars, listCalls, lastList, next_page_token,
                   subscriptions, idx, videos, chan, cliVars, auxVars>>

\* a handler that logs the error and lets the loop issue the request again
ErrorHandler_retrying(outcome) == [pc |-> "list", caught |-> "none"]

\* the except clause that ends the run when a provider call raises
ErrorHandler(outcome) ==
    IF outcome = "HttpError"
      THEN [pc |-> "done", caught |-> "extract_subscriptions"]
      ELSE [pc |-> "done", caught |-> "cli"]

\* oauth2_api.userinfo().get().execute()
UserInfo ==
    /\ pc = "userinfo"
    /\ \E outcome \in {"ok", "HttpError", "OtherError"} :
          /\ pc' = IF outcome = "ok" THEN "list" ELSE ErrorHandler(outcome).pc
          /\ caught' = IF outcome = "ok" THEN "none"
                        ELSE ErrorHandler(outcome).caught
    /\ contacted' = contacted \cup {"identity"}
    /\ UNCHANGED <<repoVars, cacheVars, listCalls, lastList, next_page_token,
                   subscriptions, idx, videos, chan, idsAtStart, opts, port,
                   auth, auxVars>>

\* the loop ending with the first page, whatever cursor came with it
AfterPage_ignoring_cursor(token) == "done"

\* where the loop goes once the channels of the page are done
AfterPage(token) == IF token = NoToken THEN "done" ELSE "list"

\* youtube_api.subscriptions().list(.., pageToken=next_page_token).execute()
\* and the unpacking of its response
ListPage ==
    /\ pc = "list"
    /\ listCalls' = listCalls + 1
    /\ \E outcome \in {"ok", "HttpError", "OtherError"} :
          IF outcome # "ok"
            THEN /\ pc' = ErrorHandler(outcome).pc
                 /\ caught' = ErrorHandler(outcome).caught
                 /\ lastList' = [token |-> next_page_token, outcome |-> outcome,
                                 cursor |-> NoToken, cursors |-> lastList.cursors]
                 /\ UNCHANGED <<next_page_token, subscriptions, idx, chan>>
            ELSE LET offset == IF next_page_token = NoToken THEN 0
                               ELSE next_page_token
                 IN  \E n \in 0..Min(MaxPerPage, Len(SubsList) - offset),
                        hasNext \in BOOLEAN :
                        LET items == SubSeq(SubsList, offset + 1, offset + n)
                            cursor == IF hasNext THEN offset + n ELSE NoToken
                        IN  /\ listCalls + 1 >= MaxPages => ~hasNext
                            /\ lastList' =
                                  [token |-> next_page_token, outcome |-> "ok",
                                   cursor |-> cursor,
                                   cursors |-> lastList.cursors
                                                 + (IF hasNext THEN 1 ELSE 0)]
                            /\ subscriptions' = items
                            /\ next_page_token' = cursor
                            /\ chan' = [ch \in Channels |->
                                          IF ch \in Range(items)
                                            THEN [chan[ch] EXCEPT !.listed = TRUE]
                                            ELSE chan[ch]]
                            /\ idx' = 1
                            /\ pc' = IF n > 0 THEN "extract"
                                     ELSE AfterPage(cursor)
                            /\ caught' = caught
    /\ contacted' = contacted \cup {"subscriptions"}
    /\ UNCHANGED <<repoVars, cacheVars, videos, idsAtStart, opts, port, auth,
                   auxVars>>

\* videos = extract_videos(channel_url) and the video.update loop
ExtractChannel ==
    /\ pc = "extract"
    /\ LET channel_id == subscriptions[idx]
       IN  /\ \E ydl \in YdlOutcomes(channel_id) : DoExtract(channel_id, ydl)
           /\ LET r == lastExtract'
                  batch == [i \in DOMAIN r.videos |->
                               WithChannel(r.videos[i], channel_id)]
              IN  /\ videos' = batch
                  /\ chan' = [chan EXCEPT ![channel_id] =
                                 [listed |-> TRUE,
                                  ext |-> IF r.error THEN "failed" ELSE r.source,
                                  ids |-> IdsOf(batch), saved |-> "no",
                                  extracts |-> chan[channel_id].extracts + 1,
                                  saves |-> chan[channel_id].saves]]
                  /\ pc' = IF r.raised THEN "done" ELSE "save"
                  /\ caught' = IF r.raised THEN "cli" ELSE caught
    /\ contacted' = IF lastExtract'.ydlCalled
                       THEN contacted \cup {"extractor"} ELSE contacted
    /\ UNCHANGED <<repoVars, now, lastGet, listCalls, lastList,
                   next_page_token, subscriptions, idx, idsAtStart, opts, port,
                   auth, auxVars>>

\* a channel loop that steps over the channel after the one just saved
AfterSave_skipping(i, n, token) ==
    IF i + 1 < n THEN [idx |-> i + 2, pc |-> "extract"]
    ELSE [idx |-> i, pc |-> AfterPage(token)]

\* the channel loop after a save: the next item of the page, or the end of
\* the page
AfterSave(i, n, token) ==
    IF i < n THEN [idx |-> i + 1, pc |-> "extract"]
    ELSE [idx |-> i, pc |-> AfterPage(token)]

\* repository.save(videos), then on to the next channel or page
SaveChannel ==
    /\ pc = "save"
    /\ \E fault \in FaultsOf(repoKind) : DoSave(videos, fault)
    /\ chan' = [chan EXCEPT ![subscriptions[idx]].saved =
                                IF lastSave'.failed THEN "failed" ELSE "ok",
                            ![subscriptions[idx]].saves = @ + 1]
    /\ idx' = AfterSave(idx, Len(subscriptions), next_page_token).idx
    /\ pc' = AfterSave(idx, Len(subscriptions), next_page_token).pc
    /\ contacted' = IF repoKind = "solr" /\ solrConfigured
                       THEN contacted \cup {"repository"} ELSE contacted
    /\ UNCHANGED <<cacheVars, caught, listCalls, lastList, next_page_token,
                   subscriptions, videos, idsAtStart, opts, port, auth,
                   auxVars>>

Next ==
    \/ Authenticate
    \/ BindPort
    \/ SelectRepository
    \/ UserInfo
    \/ ListPage
    \/ ExtractChannel
    \/ SaveChannel

Spec == Init /\ [][Next]_vars

-----------------------------------------------------------------------------
(* SpecCache: the cache store and the channel extractor under passing time *)

\* clock steps taken in one behaviour
MaxTicks == 3

\* the channels whose cache files the calls below use
CacheChannels == {SubsList[1], SubsList[2]}

CacheInit ==
    /\ impl = "videos"
    /\ repoKind = "json"
    /\ solrConfigured = TRUE
    /\ jsonFile = AbsentFile
    /\ solrDocs = {}
    /\ lastSave = NoSave
    /\ prevSave = [called |-> FALSE, batch |-> <<>>, failed |-> FALSE]
    /\ cache \in {EmptyCache,
                  [EmptyCache EXCEPT ![get_cache_file_path(ChannelUrl(SubsList[1]))]
                                        = CorruptCacheFile]}
    /\ now = StartTime
    /\ lastExtract = NoExtract
    /\ lastGet = NoGet
    /\ puts = [id \in Identifiers |-> NoPut]
    /\ pc = "api"
    /\ caught = "none"
    /\ listCalls = 0
    /\ lastList = NoList
    /\ next_page_token = NoToken
    /\ subscriptions = <<>>
    /\ idx = 0
    /\ videos = <<>>
    /\ chan = [ch \in Channels |-> NoChan]
    /\ idsAtStart = {}
    /\ opts = <<>>
    /\ port = 0
    /\ auth = "ok"
    /\ contacted = {}
    /\ raw = <<>>
    /\ view = <<>>
    /\ workers = <<>>
    /\ ui = <<>>

\* what the collaborator does here: as in the harvest, and for the first
\* channel it may also return None
CacheYdlOutcomes(ch) ==
    YdlOutcomes(ch) \cup (IF ch = SubsList[1] THEN {YdlReturns(NoneDict)} ELSE {})

\* save_to_cache(identifier, data)
CachePut ==
    /\ \E ch \in CacheChannels : \E data \in ChannelListings(ch) :
          /\ cache' = save_to_cache(cache, ChannelUrl(ch), data, now)
          /\ puts' = [puts EXCEPT ![ChannelUrl(ch)] =
                         [done |-> TRUE, time |-> now, data |-> data]]
    /\ lastGet' = NoGet
    /\ lastExtract' = NoExtract
    /\ UNCHANGED <<repoVars, runVars, cliVars, auxVars, now>>

\* load_from_cache(identifier)
CacheGet ==
    /\ \E ch \in CacheChannels :
          LET r == load_from_cache(cache, ChannelUrl(ch), now)
          IN  lastGet' = [called |-> TRUE, identifier |-> ChannelUrl(ch),
                          raised |-> r.raised, value |-> r.value]
    /\ lastExtract' = NoExtract
    /\ UNCHANGED <<repoVars, runVars, cliVars, auxVars, cache, now, puts>>

\* extract_videos(channel_url)
CacheExtract ==
    /\ \E ch \in CacheChannels : \E ydl \in CacheYdlOutcomes(ch) :
          DoExtract(ch, ydl)
    /\ lastGet' = NoGet
    /\ UNCHANGED <<repoVars, runVars, cliVars, auxVars, now>>

\* clock steps taken so far: each is one second or one second less than the
\* expiration window
TicksTaken ==
    LET elapsed == now - StartTime
    IN  (elapsed \div (CACHE_EXPIRATION_SECONDS - 1))
          + (elapsed % (CACHE_EXPIRATION_SECONDS - 1))

\* time passes
Tick ==
    /\ TicksTaken < MaxTicks
    /\ \E d \in {1, CACHE_EXPIRATION_SECONDS - 1} : now' = now + d
    /\ lastGet' = NoGet
    /\ lastExtract' = NoExtract
    /\ UNCHANGED <<repoVars, runVars, cliVars, auxVars, cache, puts>>

CacheNext == CachePut \/ CacheGet \/ CacheExtract \/ Tick

SpecCache == CacheInit /\ [][CacheNext]_vars

-----------------------------------------------------------------------------
(* Claims about the repositories, under SpecRepo *)

\* C1: in the file-backed repository of videos.py, a save call that logged no
\* error leaves the snapshot with exactly the ids it had plus the ids of the
\* batch, and no two records of the snapshot share an id.
C1_SnapshotIsDuplicateFreeUnion ==
    (impl = "videos" /\ repoKind = "json" /\ lastSave.called /\ ~lastSave.failed)
      => /\ lastSave.idsAfter = lastSave.idsBefore \cup IdsOf(lastSave.batch)
         /\ \A id \in StoredIds : CountOf(id) = 1

\* C2: in both repositories of videos.py, a save call that repeats the batch
\* of the save call just before it (neither logging an error) is a no-op: the
\* stored id set stays, the file is not opened for writing and nothing is
\* submitted to the engine.
C2_RepeatedSaveIsNoOp ==
    (/\ impl = "videos"
     /\ prevSave.called /\ ~prevSave.failed
     /\ lastSave.called /\ ~lastSave.failed
     /\ prevSave.batch = lastSave.batch)
      => /\ lastSave.idsAfter = lastSave.idsBefore
         /\ ~lastSave.opened
         /\ lastSave.written = <<>>

\* C3: in every repository of videos.py and main.py, no save call appends to
\* the file or submits to the engine a record whose id was already stored when
\* the call began.
C3_StoredRecordNeverRewritten ==
    lastSave.called
      => \A i \in DOMAIN lastSave.written :
            lastSave.written[i].id \notin lastSave.idsBefore

\* C14: a save call of videos.py's SolrRepository that logs no error sends
\* one search request per record of the batch, id:<the record's id>, and
\* submits to the engine, in one add call, exactly the records of the batch
\* whose id no stored document has; it makes no add call when there is none.
C14_SolrSubmitsExactlyTheNewRecords ==
    (/\ impl = "videos" /\ repoKind = "solr"
     /\ lastSave.called /\ ~lastSave.failed)
      => LET IsNew(item) == item.id \notin lastSave.idsBefore
         IN  /\ lastSave.queries
                   = [i \in DOMAIN lastSave.batch |->
                        <<"i", "d", ":">> \o lastSave.batch[i].id]
             /\ lastSave.written = SelectSeq(lastSave.batch, IsNew)
             /\ lastSave.opened <=> lastSave.written # <<>>

\* C15: after every save call of videos.py's JsonRepository the snapshot the
\* call found is a prefix of the snapshot it leaves, what follows the prefix
\* is the records of the batch whose id was not stored, in batch order, and
\* when there is no such record the file is not opened for writing.
C15_SnapshotIsAppendOnly ==
    (impl = "videos" /\ repoKind = "json" /\ lastSave.called)
      => LET old == lastSave.fileBefore.data
             new == jsonFile.data
             IsNew(item) == item.id \notin lastSave.idsBefore
         IN  /\ Len(old) <= Len(new)
             /\ SubSeq(new, 1, Len(old)) = old
             /\ ~lastSave.failed
                  => SubSeq(new, Len(old) + 1, Len(new))
                       = SelectSeq(lastSave.batch, IsNew)
             /\ SelectSeq(lastSave.batch, IsNew) = <<>>
                  => ~lastSave.opened /\ jsonFile = lastSave.fileBefore

-----------------------------------------------------------------------------
(* Claims about the cache store and the channel extractor, under SpecCache *)

\* C4: a load_from_cache call on an identifier whose cache file is intact
\* returns the data of the latest save_to_cache call for that identifier if
\* that call happened fewer than CACHE_EXPIRATION_SECONDS (8 hours) ago, and
\* None otherwise: at exactly 8 hours, later, and when no such call happened.
C4_CacheFreshness ==
    (/\ lastGet.called
     /\ cache[get_cache_file_path(lastGet.identifier)].kind # "corrupt")
      => LET put == puts[lastGet.identifier]
             fresh == put.done /\ now - put.time < 8 * 60 * 60
         IN  /\ ~lastGet.raised
             /\ fresh => lastGet.value = put.data
             /\ ~fresh => lastGet.value = NoneDict

\* a get exactly 8 hours after the put of its identifier, returning None
C4_ExpiredAtEightHours ==
    /\ lastGet.called
    /\ puts[lastGet.identifier].done
    /\ now - puts[lastGet.identifier].time = 8 * 60 * 60
    /\ lastGet.value = NoneDict

\* C5: load_from_cache never raises, and extract_videos on a channel whose
\* cache file is corrupt invokes the extraction collaborator and returns the
\* videos of the listing obtained, as on a cache miss.
C5_CorruptEntryIsAMiss ==
    /\ lastGet.called => ~lastGet.raised
    /\ (lastExtract.called /\ lastExtract.before.kind = "corrupt")
         => /\ lastExtract.ydlCalled
            /\ ~lastExtract.ydl.raises
                 => lastExtract.videos
                      = ListingVideos(lastExtract.ydl.info).videos

\* C16: extract_videos calls the extraction collaborator exactly when the
\* cache file of the channel url was absent, expired or held an empty payload
\* when the call began; a listing the collaborator returned is then the entry
\* of that file, stamped with the time of the call; and a call that finds an
\* entry less than 8 hours old with a listing in it calls no collaborator and
\* returns the videos of that listing.
C16_CacheFirstExtraction ==
    lastExtract.called
      => LET f == lastExtract.before
             url == ChannelUrl(lastExtract.channel)
             fresh == f.kind = "entry" /\ now - f.cached_time < 8 * 60 * 60
             absent == \/ f.kind = "absent"
                       \/ f.kind = "entry" /\ ~fresh
                       \/ fresh /\ ~Truthy(f.data)
         IN  /\ lastExtract.ydlCalled <=> absent
             /\ (lastExtract.ydlCalled /\ ~lastExtract.ydl.raises)
                  => cache[get_cache_file_path(url)]
                       = CacheEntry(now, lastExtract.ydl.info)
             /\ (fresh /\ Truthy(f.data))
                  => /\ ~lastExtract.ydlCalled
                     /\ lastExtract.videos = ListingVideos(f.data).videos

\* a second extraction of a channel, 8 hours less one second after the first
\* put its listing into the cache: no collaborator call
C16_SecondExtractionWithinWindow ==
    /\ lastExtract.called /\ ~lastExtract.ydlCalled /\ ~lastExtract.error
    /\ lastExtract.videos # <<>>
    /\ puts[ChannelUrl(lastExtract.channel)].done
    /\ now - puts[ChannelUrl(lastExtract.channel)].time = 8 * 60 * 60 - 1

\* C17: a load_from_cache call, and an extract_videos call that calls no
\* collaborator, leave every cache file as it was; a step that is not a put
\* changes no cache file; a put makes the file of its identifier the single
\* pair (time of the put, payload) and leaves every other file as it was.
C17_GetReadsPutOverwrites ==
    /\ [][lastGet'.called => cache' = cache]_vars
    /\ [][(lastExtract'.called /\ ~lastExtract'.ydlCalled) => cache' = cache]_vars
    /\ [][puts' = puts => cache' = cache]_vars
    /\ [][puts' # puts
            => \E id \in Identifiers :
                  /\ puts'[id].done /\ puts'[id].time = now
                  /\ \A other \in Identifiers \ {id} : puts'[other] = puts[other]
                  /\ cache' = [cache EXCEPT ![get_cache_file_path(id)] =
                                  CacheEntry(now, puts'[id].data)]]_vars

\* a get found an entry 8 hours old or older, returned None, and the entry is
\* still in its file
C17_ExpiredEntryStaysInPlace ==
    /\ lastGet.called /\ lastGet.value = NoneDict
    /\ LET f == cache[get_cache_file_path(lastGet.identifier)]
       IN  f.kind = "entry" /\ now - f.cached_time >= 8 * 60 * 60

-----------------------------------------------------------------------------
(* SpecExtract: extract_videos applied once to any listing within bounds *)

\* the number of top-level entries of a listing
MaxEntries == 3

SeqsUpTo(S, n) == UNION {[1..k -> S] : k \in 0..n}

\* what a playlist entry may hold: nothing, videos, a nested playlist, an entry
\* of another type
PlaylistChildren ==
    {<<>>,
     <<UrlEntry(<<"x">>, 1), UrlEntry(<<"-", "y">>, 1)>>,
     <<UrlEntry(<<"x">>, 1), PlaylistEntry(<<"q">>, <<UrlEntry(<<"z">>, 1)>>)>>,
     <<OtherEntry(<<"o">>)>>}

TopEntries ==
    {UrlEntry(<<"u">>, 1), OtherEntry(<<"v">>), [id |-> <<"w">>]}
      \cup {PlaylistEntry(<<"p">>, cs) : cs \in PlaylistChildren}

AllListings == {[entries |-> es] : es \in SeqsUpTo(TopEntries, MaxEntries)}

ExtractInit ==
    /\ impl = "videos"
    /\ repoKind = "json"
    /\ solrConfigured = TRUE
    /\ jsonFile = AbsentFile
    /\ solrDocs = {}
    /\ lastSave = NoSave
    /\ prevSave = [called |-> FALSE, batch |-> <<>>, failed |-> FALSE]
    /\ cache = EmptyCache
    /\ now = StartTime
    /\ lastExtract = NoExtract
    /\ lastGet = NoGet
    /\ puts = [id \in Identifiers |-> NoPut]
    /\ pc = "api"
    /\ caught = "none"
    /\ listCalls = 0
    /\ lastList = NoList
    /\ next_page_token = NoToken
    /\ subscriptions = <<>>
    /\ idx = 0
    /\ videos = <<>>
    /\ chan = [ch \in Channels |-> NoChan]
    /\ idsAtStart = {}
    /\ opts = <<>>
    /\ port = 0
    /\ auth = "ok"
    /\ contacted = {}
    /\ raw = <<>>
    /\ view = <<>>
    /\ workers = <<>>
    /\ ui = <<>>

\* extract_videos(channel_url) on an empty cache
ExtractListing ==
    /\ ~lastExtract.called
    /\ \E listing \in AllListings : DoExtract(SubsList[1], YdlReturns(listing))
    /\ UNCHANGED <<repoVars, runVars, cliVars, auxVars, now, lastGet>>

ExtractNext == ExtractListing

SpecExtract == ExtractInit /\ [][ExtractNext]_vars

-----------------------------------------------------------------------------
(* Claims about the harvest, under Spec *)

SucceededChannels == {ch \in Channels : chan[ch].ext \in {"ydl", "cache"}}

\* C6: extract_videos never raises and returns no videos when the extraction
\* call raised; a run that ends without a provider error has extracted and
\* saved every channel listed, and if no save logged an error the store then
\* holds exactly the ids it began with and the videos of the channels whose
\* extraction succeeded.
C6_ExtractionFailureContained ==
    /\ lastExtract.called
         => /\ ~lastExtract.raised
            /\ (lastExtract.ydlCalled /\ lastExtract.ydl.raises)
                 => lastExtract.videos = <<>>
    /\ (pc = "done" /\ caught = "none")
         => /\ \A ch \in Channels :
                  chan[ch].listed => chan[ch].ext # "none" /\ chan[ch].saved # "no"
            /\ (\A ch \in Channels : chan[ch].saved # "failed")
                 => StoredIds = idsAtStart
                       \cup UNION {chan[ch].ids : ch \in SucceededChannels}

\* channels A, B, C with the extraction of B raising: the run completes and
\* the store holds the videos of A and C only
C6_OnlyAAndCPersisted ==
    /\ pc = "done" /\ caught = "none"
    /\ chan[<<"A">>].ext = "ydl" /\ chan[<<"A">>].saved = "ok"
    /\ chan[<<"B">>].ext = "failed" /\ chan[<<"B">>].saved = "ok"
    /\ chan[<<"C">>].ext = "ydl" /\ chan[<<"C">>].saved = "ok"
    /\ idsAtStart = {}
    /\ StoredIds = chan[<<"A">>].ids \cup chan[<<"C">>].ids
    /\ chan[<<"A">>].ids # {} /\ chan[<<"C">>].ids # {}

\* C7: a save call that logs an error loses no stored record, and a save call
\* on a configured repository into which no fault is injected logs no error,
\* whatever failed before it.
C7_SaveFailureLosesNothing ==
    /\ (lastSave.called /\ lastSave.failed)
         => lastSave.idsBefore \subseteq StoredIds
    /\ (lastSave.called /\ lastSave.fault = "none" /\ solrConfigured)
         => ~lastSave.failed

ListFailed == lastList.outcome \in {"HttpError", "OtherError"}

\* the store is as the latest save call, or the start of the run, left it
StoreUntouchedSinceSave ==
    StoredIds = IF lastSave.called THEN lastSave.idsAfter ELSE idsAtStart

\* C8 as claimed: once a list call has raised, the run has ended with the
\* error logged inside extract_subscriptions (not raised to its caller), no
\* further call can be made and the store is as the latest save left it.
C8_ListFailureNotRaisedToCaller ==
    ListFailed
      => /\ pc = "done"
         /\ caught = "extract_subscriptions"
         /\ ~ENABLED Next
         /\ StoreUntouchedSinceSave

\* C8 as amended: once a list call has raised, the run has ended, no further
\* call can be made, the store is as the latest save left it, and the error is
\* logged: an HttpError inside extract_subscriptions, any other exception by
\* cli, to which extract_subscriptions raises it.
C8_ListFailureEndsRun ==
    ListFailed
      => /\ pc = "done"
         /\ caught = IF lastList.outcome = "HttpError"
                       THEN "extract_subscriptions" ELSE "cli"
         /\ ~ENABLED Next
         /\ StoreUntouchedSinceSave

\* the list call for the second page raised a transport error, the channels
\* of the first page being stored
C8_SecondPageFailed ==
    /\ lastList.outcome = "OtherError"
    /\ listCalls = 2
    /\ caught = "cli"
    /\ \E ch \in Channels : chan[ch].saved = "ok" /\ chan[ch].ids # {}
                              /\ chan[ch].ids \subseteq StoredIds

\* the steps a run can still take, at most: the calls for the channels left
\* on the page, and a full page for every list call the provider still allows
RunMeasure ==
    LET perPage == 2 * MaxPerPage + 1
        pagesLeft == (MaxPages - listCalls) * perPage
        left == Len(subscriptions) - idx
    IN  CASE pc = "auth" -> pagesLeft + 15
          [] pc = "bind" -> pagesLeft + 3 + (DEFAULT_PORT + 10 - port)
          [] pc = "select" -> pagesLeft + 2
          [] pc = "userinfo" -> pagesLeft + 1
          [] pc = "list" -> pagesLeft
          [] pc = "extract" -> pagesLeft + 2 * left + 2
          [] pc = "save" -> pagesLeft + 2 * left + 1
          [] OTHER -> 0

\* C9: every list request carries the cursor of the response before it (none
\* for the first); the loop issues no list call after a response without a
\* cursor, does not end before one, and has then made one call more than the
\* responses that carried a cursor; and every run ends: it makes at most
\* MaxPages list calls and each of its steps lowers RunMeasure, which is never
\* negative.
C9_PaginationTerminates ==
    /\ []((lastList.outcome = "ok" /\ lastList.cursor = NoToken)
            => pc # "list" /\ listCalls = lastList.cursors + 1)
    /\ []((pc = "done" /\ caught = "none")
            => lastList.outcome = "ok" /\ lastList.cursor = NoToken)
    /\ [][listCalls' # listCalls
            => lastList'.token = IF listCalls = 0 THEN NoToken
                                 ELSE lastList.cursor]_vars
    /\ [](listCalls <= MaxPages /\ RunMeasure >= 0)
    /\ [][RunMeasure' < RunMeasure]_vars

\* the third page is the first without a cursor: three calls, then the end
C9_StopsAfterThirdPage ==
    /\ pc = "done" /\ caught = "none"
    /\ listCalls = 3
    /\ lastList.cursors = 2
    /\ lastList.cursor = NoToken

\* position of a channel in the provider's listing
PositionOf(ch) == CHOOSE i \in DOMAIN SubsList : SubsList[i] = ch

\* C18: for every channel at most one extraction and one save are made, the
\* save never before the extraction; a run that ends without an error has
\* made exactly one of each for every channel listed; a save call is made for
\* the channel extracted last, with the batch extracted for it (empty or
\* not); an extraction starts only when every channel has as many saves as
\* extractions and every channel listed before it has been saved; and a list
\* call is issued only when every channel listed so far has been saved.
C18_LinearPerChannelLoop ==
    /\ [](\A ch \in Channels :
            /\ chan[ch].saves <= chan[ch].extracts
            /\ chan[ch].extracts <= 1
            /\ chan[ch].extracts = 1 => chan[ch].listed)
    /\ []((pc = "done" /\ caught = "none")
            => \A ch \in Channels :
                  chan[ch].listed
                    => chan[ch].extracts = 1 /\ chan[ch].saves = 1)
    /\ [][\A ch \in Channels :
            chan'[ch].saves # chan[ch].saves
              => /\ lastExtract.channel = ch
                 /\ chan[ch].extracts = 1
                 /\ lastSave'.batch = videos
                 /\ IdsOf(videos) = chan[ch].ids
                 /\ Len(videos) = Len(lastExtract.videos)]_vars
    /\ [][\A ch \in Channels :
            chan'[ch].extracts # chan[ch].extracts
              => /\ \A o \in Channels : chan[o].saves = chan[o].extracts
                 /\ \A o \in Channels :
                       PositionOf(o) < PositionOf(ch) => chan[o].saves = 1]_vars
    /\ [][listCalls' # listCalls
            => \A ch \in Channels : chan[ch].listed => chan[ch].saves = 1]_vars

\* a run over two pages ends with all three channels saved once, one of
\* them with an empty batch
C18_AllChannelsSavedOnce ==
    /\ pc = "done" /\ caught = "none"
    /\ listCalls = 2
    /\ \A ch \in Channels : chan[ch].extracts = 1 /\ chan[ch].saves = 1
    /\ chan[<<"B">>].ids = {} /\ chan[<<"B">>].saved = "ok"

-----------------------------------------------------------------------------
(* Claims about the flattening of a listing, under SpecExtract *)

\* the ids a top-level entry stands for: its own if it is a video reference,
\* those of its children if it is a playlist, none otherwise
SourceIds(entry) ==
    CASE Get(entry, "_type") = "url" -> <<entry.id>>
      [] Get(entry, "_type") = "playlist" ->
            [i \in DOMAIN entry.entries |-> entry.entries[i].id]
      [] OTHER -> <<>>

\* the ids of the listing's first n top-level entries, in listing order
RECURSIVE SourceIdsUpTo(_, _)
SourceIdsUpTo(entries, n) ==
    IF n = 0 THEN <<>>
    ELSE SourceIdsUpTo(entries, n - 1) \o SourceIds(entries[n])

\* C10: extract_videos returns, in listing order, one record per top-level
\* entry typed url and one per child of each top-level entry typed playlist,
\* and nothing for an entry of any other type.
C10_EntryTypeFiltering ==
    lastExtract.called
      => LET entries == lastExtract.ydl.info.entries
             expected == SourceIdsUpTo(entries, Len(entries))
         IN  /\ ~lastExtract.error
             /\ Len(lastExtract.videos) = Len(expected)
             /\ \A i \in DOMAIN expected :
                   lastExtract.videos[i].id = sanitize_solr_query(expected[i])

\* one playlist entry with two url children and one entry of another type:
\* exactly two records
C10_PlaylistOfTwoAndOther ==
    /\ lastExtract.called
    /\ lastExtract.ydl.info.entries
         = <<PlaylistEntry(<<"p">>, <<UrlEntry(<<"x">>, 1),
                                       UrlEntry(<<"-", "y">>, 1)>>),
             OtherEntry(<<"v">>)>>
    /\ Len(lastExtract.videos) = 2

-----------------------------------------------------------------------------
(* SpecNormalize: generate_view_object applied once to any raw entry *)

\* descriptors in a raw thumbnails list
MaxThumbs == 2

\* thumbnail descriptors: with a url, with a url only, without a url
Descriptors ==
    {[url |-> "https://i/1.jpg", width |-> 120], [url |-> "https://i/2.jpg"],
     [width |-> 320]}

ThumbnailValues ==
    {PyList(items) : items \in SeqsUpTo(Descriptors, MaxThumbs)}
      \cup {PyNone, [type |-> "str"], [type |-> "dict"]}

\* the fields generate_view_object copies with entry.get
PassThroughFields ==
    {"url", "title", "description", "view_count", "duration",
     "release_timestamp", "channel_is_verified", "live_status"}

DeclaredFields == PassThroughFields \cup {"id", "thumbnails"}

\* the value a raw entry has in a field it carries
RawValue(f) ==
    CASE f = "view_count" -> 7
      [] f = "duration" -> 60
      [] f = "release_timestamp" -> 1700000000
      [] f = "channel_is_verified" -> TRUE
      [] OTHER -> "raw " \o f

\* raw entries: any subset of the copied fields, with or without thumbnails,
\* with an id (plain or beginning with '-') or without one
RawEntries ==
    {[f \in present |-> RawValue(f)] @@ ids @@ thumbs :
        present \in SUBSET PassThroughFields,
        ids \in {<<>>, [id |-> <<"a", "b">>], [id |-> <<"-", "c">>]},
        thumbs \in {<<>>} \cup {[thumbnails |-> t] : t \in ThumbnailValues}}

NoView == [called |-> FALSE, raised |-> FALSE, value |-> <<>>]

NormalizeInit ==
    /\ impl = "videos"
    /\ repoKind = "json"
    /\ solrConfigured = TRUE
    /\ jsonFile = AbsentFile
    /\ solrDocs = {}
    /\ lastSave = NoSave
    /\ prevSave = [called |-> FALSE, batch |-> <<>>, failed |-> FALSE]
    /\ cache = <<>>
    /\ now = 0
    /\ lastExtract = <<>>
    /\ lastGet = <<>>
    /\ puts = <<>>
    /\ pc = "api"
    /\ caught = "none"
    /\ listCalls = 0
    /\ lastList = <<>>
    /\ next_page_token = 0
    /\ subscriptions = <<>>
    /\ idx = 0
    /\ videos = <<>>
    /\ chan = <<>>
    /\ idsAtStart = {}
    /\ opts = <<>>
    /\ port = 0
    /\ auth = "ok"
    /\ contacted = {}
    /\ raw \in RawEntries
    /\ view = NoView
    /\ workers = <<>>
    /\ ui = <<>>

\* generate_view_object(entry)
Normalize ==
    /\ ~view.called
    /\ view' = IF generate_view_object_raises(raw)
                 THEN [called |-> TRUE, raised |-> TRUE, value |-> <<>>]
                 ELSE [called |-> TRUE, raised |-> FALSE,
                       value |-> generate_view_object(raw)]
    /\ UNCHANGED <<repoVars, cacheVars, runVars, cliVars, raw, workers, ui>>

NormalizeNext == Normalize

SpecNormalize == NormalizeInit /\ [][NormalizeNext]_vars

-----------------------------------------------------------------------------
(* Claims about the normalizer, under SpecNormalize *)

\* C11: on every raw entry that carries an id, whatever subset of its other
\* fields is absent, generate_view_object does not raise and returns a record
\* with exactly the ten declared fields, in which every copied field the raw
\* entry carries has the raw value, every copied field it lacks is None, and
\* thumbnails is the empty sequence when the raw entry has no thumbnails.
C11_NormalizationTotality ==
    (view.called /\ "id" \in DOMAIN raw)
      => /\ ~view.raised
         /\ DOMAIN view.value = DeclaredFields
         /\ \A f \in PassThroughFields :
               IF f \in DOMAIN raw THEN view.value[f] = raw[f]
               ELSE view.value[f] = None
         /\ "thumbnails" \notin DOMAIN raw => view.value.thumbnails = <<>>

\* an entry with nothing but its id has been normalized
C11_OnlyIdPresent ==
    /\ view.called
    /\ DOMAIN raw = {"id"}
    /\ ~view.raised
    /\ view.value.title = None

\* the urls of the descriptors that have one, in the order of the list
RECURSIVE ExpectedUrls(_)
ExpectedUrls(items) ==
    IF items = <<>> THEN <<>>
    ELSE (IF "url" \in DOMAIN Head(items) THEN <<Head(items).url>> ELSE <<>>)
           \o ExpectedUrls(Tail(items))

UrlStrings == {d.url : d \in {x \in Descriptors : "url" \in DOMAIN x}}

-----------------------------------------------------------------------------
(* Claims about cli and authentication, under Spec *)

ExactlyOneOption == opts.output # opts.solr

\* C12: when cli is started with neither or both of --output and --solr, no
\* remote service is ever contacted and no repository is ever selected.
C12_AbortsBeforeAnyContact ==
    ~ExactlyOneOption => contacted = {} /\ repoKind = "none"

\* C13: once authentication has failed the run has ended, with the error
\* logged by cli, no list, extraction or save call made and nothing written
\* to the cache, and no further step is possible; and whenever a list,
\* extraction or save call has been made or is about to be, authentication
\* has succeeded.
C13_AuthenticationFailureIsFatal ==
    /\ auth = "failed"
         => /\ pc = "done" /\ caught = "cli"
            /\ listCalls = 0 /\ ~lastExtract.called /\ ~lastSave.called
            /\ \A id \in Identifiers : ~puts[id].done
            /\ contacted \subseteq {"identity"}
            /\ ~ENABLED Next
    /\ (\/ listCalls > 0 \/ lastExtract.called \/ lastSave.called
        \/ pc \in {"select", "userinfo", "list", "extract", "save"})
         => auth = "ok"

\* the eleven ports 8080..8090 were all in use: authentication failed
C13_NoFreePort ==
    /\ auth = "failed"
    /\ port = DEFAULT_PORT + 11
    /\ pc = "done"

\* C22: the port loop starts at port 8080 and only ever attempts a port in
\* 8080..8090; an attempt ends in credentials, or in a move to the next higher
\* port (address in use, port below 8090), or in a failure that leaves the
\* port as it is (any other error: no other port is tried), or, at port 8090
\* in use, in the failure that ends the loop; so at most eleven attempts are
\* made, the attempt at port p being the (p - 8080 + 1)-th.
C22_BoundedPortRetry ==
    /\ [](pc = "bind" => /\ port \in DEFAULT_PORT..(DEFAULT_PORT + 10)
                         /\ auth = "pending")
    /\ [][(pc = "auth" /\ pc' = "bind") => port' = DEFAULT_PORT]_vars
    /\ [][pc = "bind" =>
            \/ pc' = "select" /\ auth' = "ok"
            \/ /\ pc' = "bind" /\ auth' = "pending"
               /\ port' = port + 1 /\ port < DEFAULT_PORT + 10
            \/ pc' = "done" /\ auth' = "failed" /\ port' = port
            \/ /\ pc' = "done" /\ auth' = "failed"
               /\ port = DEFAULT_PORT + 10 /\ port' = port + 1]_vars

\* ten ports were in use: the eleventh attempt, at port 8090, is about to be
\* made
C22_EleventhAttempt ==
    /\ pc = "bind"
    /\ port = DEFAULT_PORT + 10
    /\ auth = "pending"

-----------------------------------------------------------------------------
(* SpecConcurrent: one or two harvest processes saving to one snapshot file, *)
(* the steps of JsonRepository.save (videos.py) interleaving                 *)

\* save calls one process makes
MaxSaves == 2

WorkerBatches == {<<VidA>>, <<VidB>>, <<VidB, VidB>>}

\* pc: the step of save the process is at; data: the batch of the call;
\* existing_data, unique_data: save's locals; saved: the ids of the batches
\* whose save call returned without logging an error; calls: calls begun
IdleWorker ==
    [pc |-> "idle", data |-> <<>>, existing_data |-> <<>>, unique_data |-> <<>>,
     saved |-> {}, calls |-> 0, errors |-> 0]

ConcurrentInit ==
    /\ impl = "videos"
    /\ repoKind = "json"
    /\ solrConfigured = TRUE
    /\ jsonFile = AbsentFile
    /\ solrDocs = {}
    /\ lastSave = NoSave
    /\ prevSave = [called |-> FALSE, batch |-> <<>>, failed |-> FALSE]
    /\ cache = <<>>
    /\ now = 0
    /\ lastExtract = <<>>
    /\ lastGet = <<>>
    /\ puts = <<>>
    /\ pc = "api"
    /\ caught = "none"
    /\ listCalls = 0
    /\ lastList = <<>>
    /\ next_page_token = 0
    /\ subscriptions = <<>>
    /\ idx = 0
    /\ videos = <<>>
    /\ chan = <<>>
    /\ idsAtStart = {}
    /\ opts = <<>>
    /\ port = 0
    /\ auth = "ok"
    /\ contacted = {}
    /\ raw = <<>>
    /\ view = <<>>
    /\ workers \in {[p \in 1..n |-> IdleWorker] : n \in {1, 2}}
    /\ ui = <<>>

ConcurrentFrame ==
    UNCHANGED <<impl, repoKind, solrConfigured, solrDocs, lastSave, prevSave,
                cacheVars, runVars, cliVars, normVars, ui>>

\* save is entered; the file, if it exists, is opened and parsed
WorkerLoad(p) ==
    /\ workers[p].pc = "idle"
    /\ workers[p].calls < MaxSaves
    /\ \E data \in WorkerBatches :
          workers' = [workers EXCEPT ![p] =
             IF jsonFile.kind = "corrupt"
               THEN [@ EXCEPT !.calls = @ + 1, !.errors = @ + 1]
               ELSE [@ EXCEPT !.pc = "filter", !.calls = @ + 1, !.data = data,
                              !.existing_data = jsonFile.data]]
    /\ UNCHANGED jsonFile
    /\ ConcurrentFrame

\* existing_ids and unique_data are computed; with nothing new save returns
WorkerFilter(p) ==
    /\ workers[p].pc = "filter"
    /\ LET w == workers[p]
           existing_ids == IdsOf(w.existing_data)
           NotSeen(item) == item.id \notin existing_ids
           unique_data == SelectSeq(w.data, NotSeen)
       IN  workers' = [workers EXCEPT ![p] =
              IF unique_data = <<>>
                THEN [@ EXCEPT !.pc = "idle", !.saved = @ \cup IdsOf(w.data)]
                ELSE [@ EXCEPT !.pc = "open", !.unique_data = unique_data]]
    /\ UNCHANGED jsonFile
    /\ ConcurrentFrame

\* open(self.filename, "w"): the file is created or truncated
WorkerOpen(p) ==
    /\ workers[p].pc = "open"
    /\ jsonFile' = CorruptFile
    /\ workers' = [workers EXCEPT ![p].pc = "dump"]
    /\ ConcurrentFrame

\* json.dump(existing_data, f) after existing_data.extend(unique_data)
WorkerDump(p) ==
    /\ workers[p].pc = "dump"
    /\ jsonFile' = JsonOf(workers[p].existing_data \o workers[p].unique_data)
    /\ workers' = [workers EXCEPT ![p] =
                      [@ EXCEPT !.pc = "idle",
                                !.saved = @ \cup IdsOf(workers[p].data)]]
    /\ ConcurrentFrame

Load == \E p \in DOMAIN workers : WorkerLoad(p)
Filter == \E p \in DOMAIN workers : WorkerFilter(p)
OpenForWrite == \E p \in DOMAIN workers : WorkerOpen(p)
Dump == \E p \in DOMAIN workers : WorkerDump(p)

ConcurrentNext == Load \/ Filter \/ OpenForWrite \/ Dump

SpecConcurrent == ConcurrentInit /\ [][ConcurrentNext]_vars

-----------------------------------------------------------------------------
(* Claims about concurrent saves, under SpecConcurrent *)

\* no save call is under way
Quiescent == \A p \in DOMAIN workers : workers[p].pc = "idle"

\* a record whose save call returned without an error is not in the snapshot
LostRecord ==
    \E p \in DOMAIN workers : ~(workers[p].saved \subseteq IdsOf(jsonFile.data))

\* two records of the snapshot share an id
SharedId ==
    \E i, j \in DOMAIN jsonFile.data :
       i # j /\ jsonFile.data[i].id = jsonFile.data[j].id

\* C19, the single-worker half: with one process saving, whenever no save
\* call is under way every record saved is in the snapshot and no two
\* records of the snapshot share an id. (The two-process half is the
\* reachability of C19_LostUpdateWithTwoWorkers.)
C19_OneWorkerIsSafe ==
    (Cardinality(DOMAIN workers) = 1 /\ Quiescent) => ~LostRecord /\ ~SharedId

\* two processes, no save call under way, no call failed, and a record one
\* of them saved is missing from the snapshot
C19_LostUpdateWithTwoWorkers ==
    /\ Cardinality(DOMAIN workers) = 2
    /\ Quiescent
    /\ \A p \in DOMAIN workers : workers[p].errors = 0
    /\ LostRecord

-----------------------------------------------------------------------------
(* SpecKeys: puts and gets on two distinct identifiers of any spelling *)

\* length of the part of an identifier that follows the channel url prefix
MaxIdLen == 2

\* characters of that part: a letter, and the three that get_cache_file_path
\* writes as '_'
IdChars == {"a", "_", "/", ":"}

KeyIdentifiers ==
    {ChannelUrl(tail) : tail \in UNION {[1..n -> IdChars] : n \in 1..MaxIdLen}}

\* the payload put under an identifier names that identifier
PayloadOf(identifier) == [id |-> identifier, entries |-> <<>>]

KeysInit ==
    /\ impl = "videos"
    /\ repoKind = "json"
    /\ solrConfigured = TRUE
    /\ jsonFile = AbsentFile
    /\ solrDocs = {}
    /\ lastSave = NoSave
    /\ prevSave = [called |-> FALSE, batch |-> <<>>, failed |-> FALSE]
    /\ \E a \in KeyIdentifiers : \E b \in KeyIdentifiers \ {a} :
          /\ puts = [id \in {a, b} |-> NoPut]
          /\ cache = [f \in {get_cache_file_path(a), get_cache_file_path(b)}
                        |-> NoCacheFile]
    /\ now = StartTime
    /\ lastExtract = NoExtract
    /\ lastGet = NoGet
    /\ pc = "api"
    /\ caught = "none"
    /\ listCalls = 0
    /\ lastList = <<>>
    /\ next_page_token = 0
    /\ subscriptions = <<>>
    /\ idx = 0
    /\ videos = <<>>
    /\ chan = <<>>
    /\ idsAtStart = {}
    /\ opts = <<>>
    /\ port = 0
    /\ auth = "ok"
    /\ contacted = {}
    /\ raw = <<>>
    /\ view = <<>>
    /\ workers = <<>>
    /\ ui = <<>>

\* save_to_cache(identifier, payload)
KeyPut ==
    /\ \E identifier \in DOMAIN puts :
          /\ ~puts[identifier].done
          /\ cache' = save_to_cache(cache, identifier, PayloadOf(identifier), now)
          /\ puts' = [puts EXCEPT ![identifier] =
                         [done |-> TRUE, time |-> now,
                          data |-> PayloadOf(identifier)]]
    /\ lastGet' = NoGet
    /\ UNCHANGED <<repoVars, runVars, cliVars, auxVars, now, lastExtract>>

\* load_from_cache(identifier)
KeyGet ==
    /\ \E identifier \in DOMAIN puts :
          LET r == load_from_cache(cache, identifier, now)
          IN  lastGet' = [called |-> TRUE, identifier |-> identifier,
                          raised |-> r.raised, value |-> r.value]
    /\ UNCHANGED <<repoVars, runVars, cliVars, auxVars, cache, now, puts,
                   lastExtract>>

KeysNext == KeyPut \/ KeyGet

SpecKeys == KeysInit /\ [][KeysNext]_vars

-----------------------------------------------------------------------------
(* Claims about cache keys, under SpecKeys *)

\* C21: a load_from_cache call returns a payload only if a save_to_cache call
\* was made for the same identifier, and then the payload of the latest such
\* call; it never returns what was put under another identifier.
C21_CacheIsolation ==
    (lastGet.called /\ ~lastGet.raised /\ lastGet.value # NoneDict)
      => /\ puts[lastGet.identifier].done
         /\ lastGet.value = puts[lastGet.identifier].data

-----------------------------------------------------------------------------
(* Search service (ui.py): /api/search over the snapshot file *)

RESULTS_PER_PAGE == 10

DigitChars == <<"0", "1", "2", "3", "4", "5", "6", "7", "8", "9">>

\* str(i) for 0 <= i < 100
Digits(i) ==
    IF i < 10 THEN <<DigitChars[i + 1]>>
    ELSE <<DigitChars[(i \div 10) + 1], DigitChars[(i % 10) + 1]>>

\* str.lower(), on the capitals that occur in the records and queries
LowerChar(c) ==
    CASE c = "A" -> "a" [] c = "C" -> "c" [] c = "D" -> "d" [] c = "G" -> "g"
      [] c = "I" -> "i" [] c = "O" -> "o" [] c = "T" -> "t" [] c = "V" -> "v"
      [] OTHER -> c

Lower(str) == [i \in DOMAIN str |-> LowerChar(str[i])]

\* json.dumps(item) for a record with the keys id and title:
\* {"id": "<id>", "title": "<title>"}
json_dumps(item) ==
    <<"{", "\"", "i", "d", "\"", ":", " ", "\"">> \o item.id
      \o <<"\"", ",", " ", "\"", "t", "i", "t", "l", "e", "\"", ":", " ", "\"">>
      \o item.title \o <<"\"", "}">>

\* sub in str
Contains(sub, str) ==
    \E k \in 0..(Len(str) - Len(sub)) :
        \A j \in 1..Len(sub) : str[k + j] = sub[j]

\* query.lower() in json.dumps(item).lower()
Matches(query, item) == Contains(Lower(query), Lower(json_dumps(item)))

Matching(data, query) == SelectSeq(data, LAMBDA item : Matches(query, item))

Max(a, b) == IF a > b THEN a ELSE b

\* s[a:b]: a negative index counts from the end, and both are clipped
PySlice(s, a, b) ==
    LET n == Len(s)
        lo == IF a < 0 THEN Max(n + a, 0) ELSE Min(a, n)
        hi == IF b < 0 THEN Max(n + b, 0) ELSE Min(b, n)
    IN  IF lo >= hi THEN <<>> ELSE SubSeq(s, lo + 1, hi)

\* {field: item[field] for field in fields} if fields else item
Project(item, fields) ==
    IF fields = <<>> THEN item ELSE [f \in Range(fields) |-> item[f]]

\* item[field] raises KeyError
ProjectRaises(item, fields) == \E f \in Range(fields) : f \notin DOMAIN item

\* JsonRepository.search (ui.py): every match is projected, then the list is
\* sliced; any exception becomes HTTPException(500)
JsonRepository_search(file, query, fields, start) ==
    IF file.kind # "json" THEN [raised |-> TRUE, value |-> <<>>]
    ELSE LET matches == Matching(file.data, query)
         IN  IF \E i \in DOMAIN matches : ProjectRaises(matches[i], fields)
               THEN [raised |-> TRUE, value |-> <<>>]
               ELSE LET results == [i \in DOMAIN matches
                                      |-> Project(matches[i], fields)]
                    IN  [raised |-> FALSE,
                         value |-> PySlice(results, start,
                                           start + RESULTS_PER_PAGE)]

\* JsonRepository.get_total_results (ui.py): the file is read again
get_total_results(file, query) ==
    IF file.kind # "json" THEN [raised |-> TRUE, value |-> 0]
    ELSE [raised |-> FALSE, value |-> Len(Matching(file.data, query))]

total_pages_floor(total_results) == total_results \div RESULTS_PER_PAGE

total_pages(total_results) ==
    (total_results \div RESULTS_PER_PAGE)
      + (IF total_results % RESULTS_PER_PAGE > 0 THEN 1 ELSE 0)

NoResponse ==
    [status |-> 0, results |-> <<>>, page |-> 0, total_pages |-> 0,
     total_results |-> 0]

ErrorResponse(code) == [NoResponse EXCEPT !.status = code]

\* GET /api/search?query=..&fields=..&page=.. (source is left at "json")
api_search(file, query, fields, page) ==
    LET start == (page - 1) * RESULTS_PER_PAGE
    IN  IF file.kind = "absent" THEN ErrorResponse(500)
        ELSE LET results == JsonRepository_search(file, query, fields, start)
                 total == get_total_results(file, query)
             IN  IF results.raised \/ total.raised THEN ErrorResponse(500)
                 ELSE [status |-> 200,
                       results |-> results.value,
                       page |-> page,
                       total_pages |-> total_pages(total.value),
                       total_results |-> total.value]

-----------------------------------------------------------------------------
(* SpecSearch: one query asked page by page of one snapshot file *)

\* records in the snapshot file
MaxSnapshot == 21

\* highest page number asked for
MaxPage == 4

\* page 0 is below the first page: its slice starts at -10
Pages == 0..MaxPage

\* record i of a snapshot: every title is Cat, or every second one is Dog
SnapshotRecord(i, pattern) ==
    [id |-> <<"v">> \o Digits(i),
     title |-> IF pattern = "all" \/ i % 2 = 1 THEN <<"C", "a", "t">>
               ELSE <<"D", "o", "g">>]

SearchFiles ==
    {AbsentFile, CorruptFile}
      \cup {JsonOf([i \in 1..n |-> SnapshotRecord(i, pattern)]) :
              n \in 0..MaxSnapshot, pattern \in {"all", "odd"}}

\* CAT: the Cat titles; id: every record, by its key; v1: v1 and v10..v19
Queries == {<<"C", "A", "T">>, <<"i", "d">>, <<"v", "1">>}

FieldLists == {<<>>, <<"id">>, <<"id", "url">>}

SearchInit ==
    /\ impl = "videos"
    /\ repoKind = "json"
    /\ solrConfigured = TRUE
    /\ jsonFile \in SearchFiles
    /\ solrDocs = {}
    /\ lastSave = NoSave
    /\ prevSave = [called |-> FALSE, batch |-> <<>>, failed |-> FALSE]
    /\ cache = <<>>
    /\ now = 0
    /\ lastExtract = <<>>
    /\ lastGet = <<>>
    /\ puts = <<>>
    /\ pc = "api"
    /\ caught = "none"
    /\ listCalls = 0
    /\ lastList = <<>>
    /\ next_page_token = 0
    /\ subscriptions = <<>>
    /\ idx = 0
    /\ videos = <<>>
    /\ chan = <<>>
    /\ idsAtStart = {}
    /\ opts = <<>>
    /\ port = 0
    /\ auth = "ok"
    /\ contacted = {}
    /\ raw = <<>>
    /\ view = <<>>
    /\ workers = <<>>
    /\ ui \in {[query |-> q, fields |-> fl,
                responses |-> [p \in Pages |-> NoResponse]] :
                 q \in Queries, fl \in FieldLists}

\* one request for a page not asked for yet
ApiSearch ==
    /\ \E page \in Pages :
          /\ ui.responses[page] = NoResponse
          /\ ui' = [ui EXCEPT !.responses[page] =
                      api_search(jsonFile, ui.query, ui.fields, page)]
    /\ UNCHANGED <<repoVars, cacheVars, runVars, cliVars, normVars, workers>>

SearchNext == ApiSearch

SpecSearch == SearchInit /\ [][SearchNext]_vars

-----------------------------------------------------------------------------
(* Claims about search pagination, under SpecSearch *)

\* the records of the file that match the query, as /api/search returns them
ProjectedMatches ==
    LET matches == Matching(jsonFile.data, ui.query)
    IN  [i \in DOMAIN matches |-> Project(matches[i], ui.fields)]

\* the results of the pages 1..k, one after the other
RECURSIVE PagesUpTo(_)
PagesUpTo(k) ==
    IF k = 0 THEN <<>> ELSE PagesUpTo(k - 1) \o ui.responses[k].results

\* C23: every answered request reports total_results = N, the number of
\* matching records, and total_pages = ceil(N / 10); a page p in
\* 1..total_pages holds the matches at positions (p-1)*10 .. min(p*10, N)-1,
\* between one and ten of them; a page above total_pages holds none; and once
\* the pages 1..total_pages have all been answered, their results one after
\* the other are the matches, each exactly once.
C23_SearchPagination ==
    LET N == Len(Matching(jsonFile.data, ui.query))
        pagesOfN == (N + RESULTS_PER_PAGE - 1) \div RESULTS_PER_PAGE
        answered == {p \in Pages : ui.responses[p].status = 200}
    IN  /\ \A p \in answered :
              LET r == ui.responses[p]
                  first == (p - 1) * RESULTS_PER_PAGE
                  last == Min(p * RESULTS_PER_PAGE, N) - 1
              IN  /\ r.total_results = N
                  /\ r.total_pages = pagesOfN
                  /\ r.page = p
                  /\ p \in 1..pagesOfN
                       => /\ Len(r.results) = last - first + 1
                          /\ Len(r.results) \in 1..RESULTS_PER_PAGE
                          /\ \A i \in 1..Len(r.results) :
                                r.results[i] = ProjectedMatches[first + i]
                  /\ p > pagesOfN => r.results = <<>>
        /\ (pagesOfN <= MaxPage /\ (1..pagesOfN) \subseteq answered)
             => PagesUpTo(pagesOfN) = ProjectedMatches

\* twenty-one matches asked for in full: three pages, the third with the one
\* remaining match, and a fourth page that is empty
C23_TwentyOneMatchesInThreePages ==
    /\ jsonFile.kind = "json"
    /\ Len(Matching(jsonFile.data, ui.query)) = 2 * RESULTS_PER_PAGE + 1
    /\ \A p \in 1..4 : ui.responses[p].status = 200
    /\ Len(ui.responses[3].results) = 1
    /\ ui.responses[4].results = <<>>

====
